---- MODULE Spec2Model ----
(***************************************************************************)
(* One render pass of streamlit_app.py: read the widgets, fetch the two    *)
(* FRED series, merge them on date, compute the deflator and the base-year *)
(* indices, filter by the date window and draw the chart panels.           *)
(*                                                                         *)
(* Dates are day numbers; Year(d) is the calendar year of day d.  Floats   *)
(* are exact rationals n/d extended with +inf, -inf and NaN (IEEE-754      *)
(* results of a division by zero); pd.NA is a value of its own.            *)
(***************************************************************************)
EXTENDS Integers, Sequences, FiniteSets, TLC

VARIABLES pc, nominal_series, real_series, show_deflator, show_indexed,
          base_year, cache, nom, real, df, columns, start, end, dff,
          charts, warning, error

vars == <<pc, nominal_series, real_series, show_deflator, show_indexed,
          base_year, cache, nom, real, df, columns, start, end, dff,
          charts, warning, error>>

(***************************************************************************)
(* Bounds of the model.                                                    *)
(***************************************************************************)
\* longest CSV body (rows after the header) the source returns
MaxRows == 2
\* days are 0..MaxDate
MaxDate == 2
\* days per modelled calendar year
DaysPerYear == 2
\* calendar year of day 0
FirstYear == 2020

\* st.number_input(min_value=1900, max_value=2100)
MinBaseYear == 1900
MaxBaseYear == 2100
\* st.number_input(value=2012)
DefaultBaseYear == 2012

Dates == 0..MaxDate

Year(d) == FirstYear + (d \div DaysPerYear)

(***************************************************************************)
(* float64 values as pandas computes them.                                 *)
(***************************************************************************)
Abs(x) == IF x < 0 THEN -x ELSE x

Sign(x) == IF x < 0 THEN -1 ELSE IF x > 0 THEN 1 ELSE 0

RECURSIVE GCD(_, _)
GCD(a, b) == IF b = 0 THEN a ELSE GCD(b, a % b)

\* the rational n/d (d > 0) in lowest terms
Fin(n, d) ==
    LET g == GCD(Abs(n), d)
    IN  [k |-> "fin", n |-> n \div g, d |-> d \div g]

NaN == [k |-> "nan", n |-> 0, d |-> 1]
PosInf == [k |-> "inf", n |-> 1, d |-> 1]
NegInf == [k |-> "inf", n |-> -1, d |-> 1]
\* pd.NA
NA == [k |-> "na", n |-> 0, d |-> 1]

Inf(s) == IF s < 0 THEN NegInf ELSE PosInf

IsFinite(a) == a.k = "fin"

IsZero(a) == a.k = "fin" /\ a.n = 0

\* pd.isna / Series.isna: NaN and pd.NA are missing, +-inf is not
isna(a) == a.k \in {"nan", "na"}

notna(a) == ~isna(a)

\* float64 a / b: a division by zero does not raise, it gives +-inf or NaN
Div(a, b) ==
    IF isna(a) \/ isna(b) THEN NaN
    ELSE IF b.k = "inf"
         THEN IF a.k = "inf" THEN NaN ELSE Fin(0, 1)
    ELSE IF b.n = 0
         THEN IF a.n = 0 THEN NaN ELSE Inf(a.n)
    ELSE IF a.k = "inf" THEN Inf(a.n * b.n)
    ELSE Fin(Sign(b.n) * a.n * b.d, a.d * Abs(b.n))

\* float64 a * 100
Times100(a) ==
    IF isna(a) THEN NaN
    ELSE IF a.k = "inf" THEN a
    ELSE Fin(100 * a.n, a.d)

\* float64 a + b
Add(a, b) ==
    IF isna(a) \/ isna(b) THEN NaN
    ELSE IF a.k = "inf" /\ b.k = "inf" THEN (IF a.n = b.n THEN a ELSE NaN)
    ELSE IF a.k = "inf" THEN a
    ELSE IF b.k = "inf" THEN b
    ELSE Fin(a.n * b.d + b.n * a.d, a.d * b.d)

RECURSIVE SumSeq(_)
SumSeq(s) == IF s = <<>> THEN Fin(0, 1) ELSE Add(s[1], SumSeq(Tail(s)))

\* Series.mean(): missing values are skipped, the mean of nothing is NaN
mean(s) ==
    LET present == SelectSeq(s, notna)
    IN  IF present = <<>> THEN NaN
        ELSE Div(SumSeq(present), Fin(Len(present), 1))

(***************************************************************************)
(* The source: what https://fred.stlouisfed.org/graph/fredgraph.csv?id=... *)
(* answers for a series identifier.                                        *)
(***************************************************************************)
\* what the user can type into the two text inputs
SeriesIds == {"GDP", "GDPC1", "date"}

\* the numbers a series' CSV can hold ("GDP" can go negative, "GDPC1" not)
NumericValues(series_id) ==
    IF series_id = "GDP" THEN {-1, 0, 2} ELSE {0, 1, 2}

\* a cell of the value column: a number, or FRED's "." for no data
Cells(series_id) ==
    {[text |-> "num", v |-> x] : x \in NumericValues(series_id)}
        \cup {[text |-> ".", v |-> 0]}

CsvRows(series_id) == [date : Dates, value : Cells(series_id)]

\* CSV bodies of at most MaxRows rows, in any order, dates may repeat
CsvBodies(series_id) ==
    UNION {[1..n -> CsvRows(series_id)] : n \in 0..MaxRows}

\* the source answers with a two-column CSV, is unreachable, or answers
\* with content pandas cannot read as (date, value) rows
Responses(series_id) ==
    {[status |-> "ok", rows |-> b] : b \in CsvBodies(series_id)}
        \cup {[status |-> s, rows |-> <<>>] : s \in {"unreachable", "malformed"}}

(***************************************************************************)
(* fetch_fred_csv                                                          *)
(***************************************************************************)
\* pd.to_numeric(errors="coerce"): text that is no number becomes NaN
to_numeric(cell) == IF cell.text = "num" THEN Fin(cell.v, 1) ELSE NaN

\* DataFrame.dropna(): rows with a missing value are dropped, order kept
dropna(t) == SelectSeq(t, LAMBDA r : notna(r.value))

IsSortedByDate(t) ==
    \A i \in 1..Len(t) : \A j \in 1..Len(t) : i < j => t[i].date <= t[j].date

\* DataFrame.sort_values("date"): ascending by date; the default sort is not
\* stable, so rows of equal date come out in any order
sort_values(t) ==
    {[i \in 1..Len(t) |-> t[p[i]]] : p \in
        {q \in Permutations(1..Len(t)) : IsSortedByDate([i \in 1..Len(t) |-> t[q[i]]])}}

\* read_csv and the column assignment raise on an unreachable source or on
\* malformed content; with series_id = "date" both columns are named "date"
\* and pd.to_datetime(df["date"]) raises
FetchRaises(series_id, response) ==
    response.status # "ok" \/ series_id = "date"

\* the tables fetch_fred_csv can return for a readable response
fetch_fred_csv(series_id, response) ==
    sort_values(dropna([i \in 1..Len(response.rows) |->
        [date |-> response.rows[i].date,
         value |-> to_numeric(response.rows[i].value)]]))

NoEntry == [hit |-> FALSE, table |-> <<>>]

(***************************************************************************)
(* The pipeline on tables.                                                 *)
(***************************************************************************)
RECURSIVE Concat(_)
Concat(ss) == IF ss = <<>> THEN <<>> ELSE ss[1] \o Concat(Tail(ss))

\* the rows of the right frame matching one row of the left frame
Matches(l, right) ==
    LET hits == SelectSeq(right, LAMBDA r : r.date = l.date)
    IN  [j \in 1..Len(hits) |->
            [date |-> l.date, nominal |-> l.value, real |-> hits[j].value]]

\* pd.merge(left, right, on="date", how="inner").dropna(): one row per pair
\* of rows with equal date, in the order of the left frame
merge(left, right) ==
    SelectSeq(Concat([i \in 1..Len(left) |-> Matches(left[i], right)]),
              LAMBDA r : notna(r.nominal) /\ notna(r.real))

\* the labels of the merged frame: equal value labels get suffixes _x, _y
merge_columns(left_id, right_id) ==
    IF left_id = right_id
    THEN {"date", left_id \o "_x", right_id \o "_y"}
    ELSE {"date", left_id, right_id}

\* (df[nominal_series] / df[real_series]) * 100
deflator(nominal, realv) == Times100(Div(nominal, realv))

with_deflator(t) ==
    [i \in 1..Len(t) |->
        [date |-> t[i].date, nominal |-> t[i].nominal, real |-> t[i].real,
         deflator |-> deflator(t[i].nominal, t[i].real)]]

Column(t, c) == [i \in 1..Len(t) |-> t[i][c]]

\* df.loc[df["year"] == base_year, c].mean()
base_value(t, c, by) ==
    mean(Column(SelectSeq(t, LAMBDA r : Year(r.date) = by), c))

\* pd.notna(base) and base != 0
base_guard(base) == notna(base) /\ ~IsZero(base)

\* (df[c] / base) * 100 when the guard passes, else pd.NA
index_value(v, base) ==
    IF base_guard(base) THEN Times100(Div(v, base)) ELSE NA

base_nom(t, by) == base_value(t, "nominal", by)

base_real(t, by) == base_value(t, "real", by)

base_defl(t, by) == base_value(t, "deflator", by)

\* the guard of the nominal column copied to the other two columns
with_index_shared_guard(t, by) ==
    [i \in 1..Len(t) |->
        [date |-> t[i].date, nominal |-> t[i].nominal, real |-> t[i].real,
         deflator |-> t[i].deflator, year |-> Year(t[i].date),
         nominal_index |-> index_value(t[i].nominal, base_nom(t, by)),
         real_index |->
             IF base_guard(base_nom(t, by))
             THEN Times100(Div(t[i].real, base_real(t, by))) ELSE NA,
         deflator_index |->
             IF base_guard(base_nom(t, by))
             THEN Times100(Div(t[i].deflator, base_defl(t, by))) ELSE NA]]

\* df["year"] and the three index columns
with_index(t, by) ==
    [i \in 1..Len(t) |->
        [date |-> t[i].date, nominal |-> t[i].nominal, real |-> t[i].real,
         deflator |-> t[i].deflator, year |-> Year(t[i].date),
         nominal_index |-> index_value(t[i].nominal, base_nom(t, by)),
         real_index |-> index_value(t[i].real, base_real(t, by)),
         deflator_index |-> index_value(t[i].deflator, base_defl(t, by))]]

RECURSIVE SeqMin(_)
SeqMin(s) ==
    IF Len(s) = 1 THEN s[1]
    ELSE LET m == SeqMin(Tail(s)) IN IF s[1] < m THEN s[1] ELSE m

RECURSIVE SeqMax(_)
SeqMax(s) ==
    IF Len(s) = 1 THEN s[1]
    ELSE LET m == SeqMax(Tail(s)) IN IF s[1] > m THEN s[1] ELSE m

\* the window with its end excluded
mask_end_excluded(d, s, e) == d >= s /\ d < e

\* (df["date"].dt.date >= start) & (df["date"].dt.date <= end)
mask(d, s, e) == d >= s /\ d <= e

\* df.loc[mask].copy()
filter_rows(t, s, e) == SelectSeq(t, LAMBDA r : mask(r.date, s, e))

\* Series.isna().all(): true of an empty column
all_isna(t, c) == \A i \in 1..Len(t) : isna(t[i][c])

\* go.Scatter(x=dff["date"], y=dff[c])
Trace(t, c) == [col |-> c, x |-> Column(t, "date"), y |-> Column(t, c)]

(***************************************************************************)
(* The render pass.                                                        *)
(***************************************************************************)
\* the years the number input is set to: its limits (years without data)
\* and the years of data
BaseYears == {MinBaseYear, MaxBaseYear} \cup {Year(d) : d \in Dates}

Init ==
    /\ pc = "inputs"
    /\ nominal_series = "GDP"
    /\ real_series = "GDPC1"
    /\ show_deflator = TRUE
    /\ show_indexed = FALSE
    /\ base_year = DefaultBaseYear
    /\ cache = [s \in SeriesIds |-> NoEntry]
    /\ nom = <<>>
    /\ real = <<>>
    /\ df = <<>>
    /\ columns = {}
    /\ start = 0
    /\ end = 0
    /\ dff = <<>>
    /\ charts = {}
    /\ warning = FALSE
    /\ error = "none"

\* lines 17-26: the widgets deliver what the user entered
ReadInputs ==
    /\ pc = "inputs"
    /\ nominal_series' \in SeriesIds
    /\ real_series' \in SeriesIds
    /\ show_deflator' \in BOOLEAN
    /\ show_indexed' \in BOOLEAN
    /\ base_year' \in BaseYears
    /\ pc' = "fetch_nom"
    /\ UNCHANGED <<cache, nom, real, df, columns, start, end, dff, charts,
                   warning, error>>

\* an uncaught exception ends the script run; nothing after it executes
Raise(e) ==
    /\ pc' = "raised"
    /\ error' = e

\* line 39: nom = fetch_fred_csv(nominal_series), through st.cache_data
FetchNominal ==
    /\ pc = "fetch_nom"
    /\ IF cache[nominal_series].hit
       THEN /\ nom' = cache[nominal_series].table
            /\ pc' = "fetch_real"
            /\ UNCHANGED <<cache, error>>
       ELSE \E response \in Responses(nominal_series) :
              IF FetchRaises(nominal_series, response)
              THEN /\ Raise("FetchError")
                   /\ UNCHANGED <<cache, nom>>
              ELSE \E t \in fetch_fred_csv(nominal_series, response) :
                     /\ nom' = t
                     /\ cache' = [cache EXCEPT ![nominal_series] =
                                     [hit |-> TRUE, table |-> t]]
                     /\ pc' = "fetch_real"
                     /\ UNCHANGED error
    /\ UNCHANGED <<nominal_series, real_series, show_deflator, show_indexed,
                   base_year, real, df, columns, start, end, dff, charts,
                   warning>>

\* a failed fetch reported and passed over: the pass goes on with no rows
FetchRealReportsAndContinues ==
    /\ pc = "fetch_real"
    /\ ~cache[real_series].hit
    /\ \E response \in Responses(real_series) :
           /\ FetchRaises(real_series, response)
           /\ error' = "FetchError"
           /\ real' = <<>>
           /\ pc' = "merge"
    /\ UNCHANGED <<nominal_series, real_series, show_deflator, show_indexed,
                   base_year, cache, nom, df, columns, start, end, dff, charts,
                   warning>>

\* line 40: real = fetch_fred_csv(real_series), through st.cache_data
FetchReal ==
    /\ pc = "fetch_real"
    /\ IF cache[real_series].hit
       THEN /\ real' = cache[real_series].table
            /\ pc' = "merge"
            /\ UNCHANGED <<cache, error>>
       ELSE \E response \in Responses(real_series) :
              IF FetchRaises(real_series, response)
              THEN /\ Raise("FetchError")
                   /\ UNCHANGED <<cache, real>>
              ELSE \E t \in fetch_fred_csv(real_series, response) :
                     /\ real' = t
                     /\ cache' = [cache EXCEPT ![real_series] =
                                     [hit |-> TRUE, table |-> t]]
                     /\ pc' = "merge"
                     /\ UNCHANGED error
    /\ UNCHANGED <<nominal_series, real_series, show_deflator, show_indexed,
                   base_year, nom, df, columns, start, end, dff, charts,
                   warning>>

\* line 43: df = pd.merge(nom, real, on="date", how="inner").dropna()
Merge ==
    /\ pc = "merge"
    /\ df' = merge(nom, real)
    /\ columns' = merge_columns(nominal_series, real_series)
    /\ pc' = "deflator"
    /\ UNCHANGED <<nominal_series, real_series, show_deflator, show_indexed,
                   base_year, cache, nom, real, start, end, dff, charts,
                   warning, error>>

\* line 47: df[nominal_series] and df[real_series] are looked up by label
Deflator ==
    /\ pc = "deflator"
    /\ IF nominal_series \in columns /\ real_series \in columns
       THEN /\ df' = with_deflator(df)
            /\ columns' = columns \cup {"deflator"}
            /\ pc' = "index"
            /\ UNCHANGED error
       ELSE /\ Raise("KeyError")
            /\ UNCHANGED <<df, columns>>
    /\ UNCHANGED <<nominal_series, real_series, show_deflator, show_indexed,
                   base_year, cache, nom, real, start, end, dff, charts,
                   warning>>

\* lines 50-68: the year column, the three base values and index columns
BaseIndex ==
    /\ pc = "index"
    /\ df' = with_index(df, base_year)
    /\ columns' = columns \cup {"year", "nominal_index", "real_index",
                                "deflator_index"}
    /\ pc' = "window"
    /\ UNCHANGED <<nominal_series, real_series, show_deflator, show_indexed,
                   base_year, cache, nom, real, start, end, dff, charts,
                   warning, error>>

\* lines 71-77: df["date"].min() of an empty frame is NaT and NaT.date()
\* raises; else the date input delivers two days within [min_date, max_date]
DateWindow ==
    /\ pc = "window"
    /\ IF df = <<>>
       THEN /\ Raise("ValueError")
            /\ UNCHANGED <<start, end>>
       ELSE LET min_date == SeqMin(Column(df, "date"))
                max_date == SeqMax(Column(df, "date"))
            IN  /\ start' \in min_date..max_date
                /\ end' \in min_date..max_date
                /\ pc' = "filter"
                /\ UNCHANGED error
    /\ UNCHANGED <<nominal_series, real_series, show_deflator, show_indexed,
                   base_year, cache, nom, real, df, columns, dff, charts,
                   warning>>

\* lines 78-79: dff = df.loc[mask].copy()
Filter ==
    /\ pc = "filter"
    /\ dff' = filter_rows(df, start, end)
    /\ pc' = "levels"
    /\ UNCHANGED <<nominal_series, real_series, show_deflator, show_indexed,
                   base_year, cache, nom, real, df, columns, start, end,
                   charts, warning, error>>

\* lines 82-100: the levels chart, always drawn
LevelsChart ==
    /\ pc = "levels"
    /\ charts' = charts \cup
          {[panel |-> "levels",
            traces |-> {Trace(dff, "nominal"), Trace(dff, "real")}]}
    /\ pc' = "deflator_chart"
    /\ UNCHANGED <<nominal_series, real_series, show_deflator, show_indexed,
                   base_year, cache, nom, real, df, columns, start, end, dff,
                   warning, error>>

\* lines 103-116: the deflator chart, when its checkbox is set
DeflatorChart ==
    /\ pc = "deflator_chart"
    /\ charts' = IF show_deflator
                 THEN charts \cup
                        {[panel |-> "deflator",
                          traces |-> {Trace(dff, "deflator")}]}
                 ELSE charts
    /\ pc' = "indexed_chart"
    /\ UNCHANGED <<nominal_series, real_series, show_deflator, show_indexed,
                   base_year, cache, nom, real, df, columns, start, end, dff,
                   warning, error>>

\* line 120: the guard is taken on the filtered frame
index_missing(t) == all_isna(t, "nominal_index") \/ all_isna(t, "real_index")

\* lines 132-136: the deflator index trace
deflator_index_traces(t, sd) ==
    IF sd /\ ~all_isna(t, "deflator_index")
    THEN {Trace(t, "deflator_index")}
    ELSE {}

\* lines 119-156: the indexed chart or its warning, then the closing text
IndexedChart ==
    /\ pc = "indexed_chart"
    /\ IF show_indexed
       THEN IF index_missing(dff)
            THEN /\ warning' = TRUE
                 /\ UNCHANGED charts
            ELSE /\ charts' = charts \cup
                      {[panel |-> "indexed",
                        traces |-> {Trace(dff, "nominal_index"),
                                    Trace(dff, "real_index")}
                                   \cup deflator_index_traces(dff, show_deflator)]}
                 /\ UNCHANGED warning
       ELSE UNCHANGED <<charts, warning>>
    /\ pc' = "done"
    /\ UNCHANGED <<nominal_series, real_series, show_deflator, show_indexed,
                   base_year, cache, nom, real, df, columns, start, end, dff,
                   error>>

Next ==
    \/ ReadInputs
    \/ FetchNominal
    \/ FetchReal
    \/ Merge
    \/ Deflator
    \/ BaseIndex
    \/ DateWindow
    \/ Filter
    \/ LevelsChart
    \/ DeflatorChart
    \/ IndexedChart

Spec == Init /\ [][Next]_vars

(***************************************************************************)
(* The fetch stage alone: the two text inputs take any identifier, the     *)
(* checkboxes and the base year stay at their defaults.                    *)
(***************************************************************************)
\* lines 17-18: the text inputs deliver what the user typed
ReadSeriesIds ==
    /\ pc = "inputs"
    /\ nominal_series' \in SeriesIds
    /\ real_series' \in SeriesIds
    /\ pc' = "fetch_nom"
    /\ UNCHANGED <<show_deflator, show_indexed, base_year, cache, nom, real,
                   df, columns, start, end, dff, charts, warning, error>>

NextFetch ==
    \/ ReadSeriesIds
    \/ FetchNominal
    \/ FetchReal

SpecFetch == Init /\ [][NextFetch]_vars

(***************************************************************************)
(* The calculator and the window filter as functions of the aligned table: *)
(* the pass taken up after line 47, from every table the merge of two      *)
(* fetched tables can yield, with the text inputs and checkboxes at their  *)
(* defaults.                                                               *)
(***************************************************************************)
\* the tables fetch_fred_csv can return for a series
FetchedTables(series_id) ==
    UNION {fetch_fred_csv(series_id, r) :
              r \in {x \in Responses(series_id) : ~FetchRaises(series_id, x)}}

\* the aligned tables with their deflator column, for the default identifiers
AlignedTables ==
    {with_deflator(merge(a, b)) :
        a \in FetchedTables("GDP"), b \in FetchedTables("GDPC1")}

InitTables ==
    /\ pc = "index"
    /\ nominal_series = "GDP"
    /\ real_series = "GDPC1"
    /\ show_deflator = TRUE
    /\ show_indexed = FALSE
    /\ base_year \in BaseYears
    /\ cache = [s \in SeriesIds |-> NoEntry]
    /\ nom = <<>>
    /\ real = <<>>
    /\ df \in AlignedTables
    /\ columns = merge_columns(nominal_series, real_series) \cup {"deflator"}
    /\ start = 0
    /\ end = 0
    /\ dff = <<>>
    /\ charts = {}
    /\ warning = FALSE
    /\ error = "none"

NextTables ==
    \/ BaseIndex
    \/ DateWindow
    \/ Filter

SpecTables == InitTables /\ [][NextTables]_vars

(***************************************************************************)
(* Where the pass stands, and what the claims speak of.                    *)
(***************************************************************************)
\* df holds the merged rows
HasMerged ==
    \/ pc \in {"deflator", "index", "window", "filter", "levels",
               "deflator_chart", "indexed_chart", "done"}
    \/ pc = "raised" /\ error \in {"KeyError", "ValueError"}

\* df holds the deflator column
HasDeflator ==
    \/ pc \in {"index", "window", "filter", "levels", "deflator_chart",
               "indexed_chart", "done"}
    \/ pc = "raised" /\ error = "ValueError"

\* df holds the year and index columns
HasIndex ==
    \/ pc \in {"window", "filter", "levels", "deflator_chart",
               "indexed_chart", "done"}
    \/ pc = "raised" /\ error = "ValueError"

\* dff holds the filtered rows
HasFiltered == pc \in {"levels", "deflator_chart", "indexed_chart", "done"}

Panels == {c.panel : c \in charts}

IndexedTraces == UNION {c.traces : c \in {x \in charts : x.panel = "indexed"}}

DatesOf(t) == {t[i].date : i \in 1..Len(t)}

StrictlyAscending(t) ==
    \A i \in 1..Len(t) : \A j \in 1..Len(t) : i < j => t[i].date < t[j].date

\* each index column with the column it is computed from
IndexColumns ==
    {<<"nominal", "nominal_index">>, <<"real", "real_index">>,
     <<"deflator", "deflator_index">>}

BaseYearRows(t, by) == SelectSeq(t, LAMBDA r : Year(r.date) = by)

\* no base-year row, or a base value that is NaN or zero
BaseUndefinedOrZero(t, c, by) ==
    \/ BaseYearRows(t, by) = <<>>
    \/ base_value(t, c, by).k = "nan"
    \/ base_value(t, c, by) = Fin(0, 1)

\* the row numbers of t dated within [s, e]
InWindow(t, s, e) == {i \in 1..Len(t) : s <= t[i].date /\ t[i].date <= e}

\* the j-th smallest member of a set of row numbers
Nth(idx, j) == CHOOSE i \in idx : Cardinality({k \in idx : k <= i}) = j

\* fetched tables without a repeated date and without a zero real value
CleanTables ==
    /\ StrictlyAscending(nom)
    /\ StrictlyAscending(real)
    /\ \A i \in 1..Len(real) : ~IsZero(real[i].value)

(***************************************************************************)
(* C1.  Every table fetch_fred_csv returns is sorted strictly ascending by *)
(* date, so no date occurs twice, and has no missing value.  The code      *)
(* sorts and drops missing values but keeps repeated dates.                *)
(***************************************************************************)
C1_FetchStrictlyAscending ==
    /\ StrictlyAscending(nom) /\ \A i \in 1..Len(nom) : notna(nom[i].value)
    /\ StrictlyAscending(real) /\ \A i \in 1..Len(real) : notna(real[i].value)

(***************************************************************************)
(* C2.  In every aligned row the deflator is nominal / real * 100 when     *)
(* real is not zero and is missing when real is zero.  The code divides    *)
(* floats: a non-zero nominal over a zero real is +-inf, which is not      *)
(* missing.                                                                *)
(***************************************************************************)
C2_DeflatorRatioOrMissing ==
    HasDeflator =>
        \A i \in 1..Len(df) :
            IF IsZero(df[i].real)
            THEN isna(df[i].deflator)
            ELSE /\ IsFinite(df[i].deflator)
                 /\ df[i].deflator.n * df[i].real.n * df[i].nominal.d
                        = 100 * df[i].nominal.n * df[i].real.d * df[i].deflator.d

(***************************************************************************)
(* C3.  Each index column is all pd.NA exactly when its own base value has *)
(* no base-year row behind it, is NaN or is zero; the base values of the   *)
(* other two columns play no part.                                         *)
(***************************************************************************)
C3_IndexGuardPerColumn ==
    HasIndex =>
        \A ci \in IndexColumns :
            /\ BaseUndefinedOrZero(df, ci[1], base_year)
                   => \A i \in 1..Len(df) : df[i][ci[2]] = NA
            /\ ~BaseUndefinedOrZero(df, ci[1], base_year)
                   => \A i \in 1..Len(df) : df[i][ci[2]] # NA

\* C3: base-year deflators that cancel out make the deflator index pd.NA
\* while the nominal and real indices are numbers
C3_Witness ==
    /\ HasIndex
    /\ df # <<>>
    /\ StrictlyAscending(df)
    /\ \A i \in 1..Len(df) : IsFinite(df[i].deflator)
    /\ base_defl(df, base_year) = Fin(0, 1)
    /\ ~BaseUndefinedOrZero(df, "nominal", base_year)
    /\ ~BaseUndefinedOrZero(df, "real", base_year)
    /\ \A i \in 1..Len(df) :
          /\ df[i].deflator_index = NA
          /\ IsFinite(df[i].nominal_index)
          /\ IsFinite(df[i].real_index)

(***************************************************************************)
(* C4.  When a column's base value is defined and not zero, every row gets *)
(* index = column / base * 100 and the index averages 100 over the         *)
(* base-year rows.  With a zero real value in the base year the deflator's *)
(* base value is +-inf, which passes the guard.                            *)
(***************************************************************************)
C4_IndexAveragesHundred ==
    HasIndex =>
        \A ci \in IndexColumns :
            LET b == base_value(df, ci[1], base_year)
            IN  (notna(b) /\ ~IsZero(b)) =>
                    /\ \A i \in 1..Len(df) :
                           df[i][ci[2]] = Times100(Div(df[i][ci[1]], b))
                    /\ mean(Column(BaseYearRows(df, base_year), ci[2]))
                           = Fin(100, 1)

(***************************************************************************)
(* C5.  The filtered table is exactly the rows of the aligned table whose  *)
(* date lies in [start, end], both ends included, in their order and       *)
(* unchanged; with start > end or no row in the window it is empty, and    *)
(* the filter raises nothing.                                              *)
(***************************************************************************)
C5_FilterInclusiveSubsequence ==
    HasFiltered =>
        LET idx == InWindow(df, start, end)
        IN  /\ Len(dff) = Cardinality(idx)
            /\ \A j \in 1..Len(dff) : dff[j] = df[Nth(idx, j)]
            /\ (start > end \/ idx = {}) => dff = <<>>
            /\ error = "none"

\* C5: a window that keeps the row dated end and drops an earlier row
C5_Witness ==
    /\ HasFiltered
    /\ Len(df) = 2
    /\ Len(dff) = 1
    /\ start <= end
    /\ dff[1] = df[2]
    /\ dff[1].date = end
    /\ df[1].date < start

(***************************************************************************)
(* C6.  With the indexed chart enabled, an index column whose base value   *)
(* is undefined or zero brings the warning and no indexed panel, and no    *)
(* trace is drawn from such a column.  The code warns for the nominal and  *)
(* real columns only; an undefined deflator index just loses its trace.    *)
(* Stated for completed passes with both checkboxes set, over tables       *)
(* without repeated dates or zero real values, so that it stands apart     *)
(* from C1, C2 and C10.                                                    *)
(***************************************************************************)
C6_UndefinedIndexWarns ==
    (pc = "done" /\ show_indexed /\ show_deflator /\ CleanTables) =>
        \A ci \in IndexColumns :
            BaseUndefinedOrZero(df, ci[1], base_year) =>
                /\ warning
                /\ "indexed" \notin Panels
                /\ \A tr \in IndexedTraces : tr.col # ci[2]

(***************************************************************************)
(* C7.  A date window without any aligned row is no error and no warning:  *)
(* every enabled panel is drawn as an empty chart, the indexed one when    *)
(* its base-year index is defined.  The code takes the index guard on the  *)
(* filtered rows, so an empty window brings the no-data warning.  Stated   *)
(* for start <= end, all three indices defined and tables without repeated *)
(* dates or zero real values.                                              *)
(***************************************************************************)
C7_EmptyWindowDrawsEmptyCharts ==
    (/\ pc = "done" /\ start <= end /\ dff = <<>>
     /\ CleanTables
     /\ \A ci \in IndexColumns : ~BaseUndefinedOrZero(df, ci[1], base_year)) =>
        /\ error = "none"
        /\ ~warning
        /\ "levels" \in Panels
        /\ show_deflator => "deflator" \in Panels
        /\ show_indexed => "indexed" \in Panels
        /\ \A c \in charts : \A tr \in c.traces : tr.x = <<>> /\ tr.y = <<>>

(***************************************************************************)
(* C8.  The aligned table has exactly one row for each date present in     *)
(* both fetched tables and none for any other date, both values present,   *)
(* in ascending date order.  With a repeated date in a fetched table (C1)  *)
(* the merge has one row per pair of rows of that date.                    *)
(***************************************************************************)
C8_OneRowPerCommonDate ==
    HasMerged =>
        /\ \A d \in Dates :
               Cardinality({i \in 1..Len(df) : df[i].date = d})
                   = IF d \in DatesOf(nom) \cap DatesOf(real) THEN 1 ELSE 0
        /\ \A i \in 1..Len(df) : notna(df[i].nominal) /\ notna(df[i].real)
        /\ IsSortedByDate(df)

(***************************************************************************)
(* C9.  A failed fetch of either series ends the render pass there: no     *)
(* chart is drawn, not even for the series already fetched, and no later   *)
(* step (merge, deflator, index, filter) runs: no action of the pass is    *)
(* enabled.                                                                *)
(***************************************************************************)
C9_FetchFailureStopsPass ==
    error = "FetchError" =>
        /\ pc = "raised"
        /\ charts = {}
        /\ ~warning
        /\ df = <<>> /\ columns = {} /\ dff = <<>>
        /\ ~ENABLED Next

\* C9: the nominal series was fetched, then the fetch of the real series
\* failed
C9_Witness ==
    /\ pc = "raised"
    /\ error = "FetchError"
    /\ nom # <<>>
    /\ cache[nominal_series].hit
    /\ real = <<>>

(***************************************************************************)
(* C10.  Once both fetches have succeeded the pass runs to its end without *)
(* raising, whatever the identifiers, base year, toggles and tables.  The  *)
(* code raises KeyError when both identifiers are equal and ValueError     *)
(* when the two tables share no date.                                      *)
(***************************************************************************)
C10_PassCompletesAfterFetches ==
    pc = "raised" => error = "FetchError"

====
